---- MODULE Spec2Model ----
(***************************************************************************)
(* simple-runtypes: the validator protocol (failOrThrow), failure          *)
(* creation and propagation, and the structural and algebraic combinators. *)
(*                                                                         *)
(* A runtype is a function (v, failOrThrow) -> value | Fail that throws a  *)
(* RuntypeError when failOrThrow is undefined.  Runtypes are modelled as   *)
(* terms (records tagged with the constructor that built them) and the     *)
(* function each constructor returns as an operator over                   *)
(* (runtype term, value, failOrThrow, depth).  An operator returns an      *)
(* outcome: a returned value, a returned Fail, or a thrown error.          *)
(***************************************************************************)
EXTENDS Integers, Sequences, FiniteSets, TLC

(***************************************************************************)
(* Bounds of the input universe.                                           *)
(***************************************************************************)
MaxNum == 3
MaxLen == 2
MaxKeys == 2

(***************************************************************************)
(* JavaScript values.  Each type has its own record shape.  An object is   *)
(* its own enumerable string-keyed properties in enumeration order, plus   *)
(* whether it has an own symbol-keyed property.                            *)
(***************************************************************************)
Undef == [t |-> "undefined"]
Null == [t |-> "null"]
NaN == [t |-> "NaN"]
ObjectPrototype == [t |-> "Object.prototype", e |-> <<>>, sym |-> FALSE]
Bool(b) == [t |-> "boolean", b |-> b]
Num(n) == [t |-> "number", n |-> n]
Str(s) == [t |-> "string", s |-> s]
Arr(items) == [t |-> "array", items |-> items]
Obj(e, sym) == [t |-> "object", e |-> e, sym |-> sym]
Entry(k, v) == [k |-> k, v |-> v]

typeof(v) ==
  CASE v.t = "undefined" -> "undefined"
    [] v.t = "boolean" -> "boolean"
    [] v.t \in {"number", "NaN"} -> "number"
    [] v.t = "string" -> "string"
    [] OTHER -> "object"

isArray(v) == v.t = "array"

\* Object.keys(o) / for (k in o): the own enumerable string keys, in order
OwnKeys(o) == [i \in 1..Len(o.e) |-> o.e[i].k]

HasOwn(e, k) == \E i \in 1..Len(e) : e[i].k = k

\* o[k] for a data object: the own property, the prototype for an
\* inherited __proto__, undefined otherwise
Get(o, k) ==
  IF HasOwn(o.e, k)
  THEN (CHOOSE x \in {o.e[i] : i \in 1..Len(o.e)} : x.k = k).v
  ELSE IF k = "__proto__"
  THEN (IF o = ObjectPrototype THEN Null ELSE ObjectPrototype)
  ELSE Undef

\* res[k] = value on an object literal under construction.  Assigning to
\* "__proto__" runs the inherited setter and creates no own property.
\* isInput says that res is the object the runtype was called on, assigned
\* that a property of res was assigned.
NewObject == [e |-> <<>>, protoSet |-> FALSE, isInput |-> FALSE, assigned |-> FALSE]

\* res = o: no new object, the object of the caller
InputObject(o) == [e |-> o.e, protoSet |-> FALSE, isInput |-> TRUE, assigned |-> FALSE]

ObjSet(res, k, value) ==
  IF k = "__proto__" THEN [res EXCEPT !.protoSet = TRUE, !.assigned = TRUE]
  ELSE IF HasOwn(res.e, k)
  THEN [res EXCEPT !.assigned = TRUE,
                   !.e = [i \in 1..Len(res.e) |->
                            IF res.e[i].k = k THEN Entry(k, value) ELSE res.e[i]]]
  ELSE [res EXCEPT !.assigned = TRUE, !.e = Append(res.e, Entry(k, value))]

\* String.prototype.trim on the strings of the universe
trim(s) ==
  CASE s = " a" -> "a"
    [] s = " __proto__" -> "__proto__"
    [] OTHER -> s

\* s.length
length(s) == Len(s)

\* parseInt(s, 10) on the strings of the universe
parseInt(s) ==
  CASE s = "1" -> Num(1)
    [] s = "01" -> Num(1)
    [] s = "+1" -> Num(1)
    [] s = "-0" -> Num(0)
    [] OTHER -> NaN

\* v === '-0' ? '0' : v[0] === '+' ? v.slice(1) : v
sansLeadingPlus(s) ==
  CASE s = "-0" -> "0"
    [] s = "+1" -> "1"
    [] OTHER -> s

\* match.test(s) for the regular expressions of the universe, each named by
\* its source text
test(match, s) ==
  CASE match = Str("/^[a-z]$/") -> s \in {"a", "b", "x"}
    [] OTHER -> FALSE

\* n.toString() for the non-negative integers of the universe
Digits == <<"0", "1", "2", "3", "4", "5", "6", "7", "8", "9">>
toString(n) == IF n \in 0..9 THEN Digits[n + 1] ELSE "1e1"

\* JSON.parse(s): the parsed value, or a SyntaxError
JSONparse(s) ==
  CASE s = "1" -> [ok |-> TRUE, data |-> Num(1)]
    [] s = "{\"a\":1}" -> [ok |-> TRUE, data |-> Obj(<<Entry("a", Num(1))>>, FALSE)]
    [] s = "{\"a\":\"x\"}" -> [ok |-> TRUE, data |-> Obj(<<Entry("a", Str("x"))>>, FALSE)]
    [] OTHER -> [ok |-> FALSE, data |-> Undef]

Reverse(s) == [i \in 1..Len(s) |-> s[Len(s) + 1 - i]]

(***************************************************************************)
(* Outcomes.  reason is the message (a template and the value it          *)
(* interpolates); path is Fail.path (leaf to root) of a returned Fail and  *)
(* RuntypeError.path of a thrown error, where the empty sequence stands    *)
(* for the absent path; value is RuntypeError.value; depth is how many     *)
(* child-runtype calls lie between the external call and the throw;        *)
(* same says that the returned value is the value passed in (===);         *)
(* protoSet that the returned object was assigned its "__proto__";         *)
(* written that the call assigned to a property of the value it was        *)
(* called on.                                                              *)
(***************************************************************************)
undefined == "undefined"
failSymbol == "failSymbol"

Msg(template, arg) == [template |-> template, arg |-> arg]
NoMsg == Msg("", Undef)

Return(val, same, protoSet) ==
  [r |-> "ok", val |-> val, same |-> same, protoSet |-> protoSet, written |-> FALSE,
   reason |-> NoMsg, path |-> <<>>, err |-> "none", value |-> Undef, depth |-> 0]

FailObject(reason, path) ==
  [r |-> "fail", val |-> Undef, same |-> FALSE, protoSet |-> FALSE, written |-> FALSE,
   reason |-> reason, path |-> path, err |-> "none", value |-> Undef, depth |-> 0]

Throw(err, reason, value, path, d) ==
  [r |-> "throw", val |-> Undef, same |-> FALSE, protoSet |-> FALSE, written |-> FALSE,
   reason |-> reason, path |-> path, err |-> err, value |-> value, depth |-> d]

isFail(res) == res.r = "fail"
Thrown(res) == res.r = "throw"

\* create a fail or raise the error exception if the called runtype was on top
\* a createFail that raises the error whatever failOrThrow is
createFailAlwaysThrows(failOrThrow, msg, topLevelValue, d) ==
  Throw("RuntypeError", msg, topLevelValue, <<>>, d)

createFail(failOrThrow, msg, topLevelValue, d) ==
  IF failOrThrow = undefined
  THEN Throw("RuntypeError", msg, topLevelValue, <<>>, d)
  ELSE IF failOrThrow = failSymbol
  THEN FailObject(msg, <<>>)
  ELSE Throw("RuntypeUsageError",
             Msg("failOrThrow must be undefined or the failSymbol", Str(failOrThrow)),
             Undef, <<>>, d)

\* a propagateFail that hands the path to the error as it was collected
propagateFailUnreversed(failOrThrow, fail, topLevelValue, key, d) ==
  LET path == IF key # Undef THEN Append(fail.path, key) ELSE fail.path
  IN IF failOrThrow = undefined
     THEN Throw("RuntypeError", fail.reason, topLevelValue, path, d)
     ELSE [fail EXCEPT !.path = path]

\* pass the fail up to the caller or, if on top, raise the error exception
propagateFail(failOrThrow, fail, topLevelValue, key, d) ==
  LET path == IF key # Undef THEN Append(fail.path, key) ELSE fail.path
  IN IF failOrThrow = undefined
     THEN Throw("RuntypeError", fail.reason, topLevelValue, Reverse(path), d)
     ELSE IF failOrThrow = failSymbol
     THEN [fail EXCEPT !.path = path]
     ELSE Throw("RuntypeUsageError",
                Msg("failOrThrow must be undefined or the failSymbol", Str(failOrThrow)),
                Undef, <<>>, d)

(***************************************************************************)
(* Runtype terms: what each constructor closes over, and the purity flag   *)
(* it hands to internalRuntype.                                            *)
(***************************************************************************)
mkAny == [k |-> "any"]
mkBoolean == [k |-> "boolean"]
mkIntegerRuntype == [k |-> "integer", options |-> FALSE]
mkInteger(min, max) == [k |-> "integer", options |-> TRUE, min |-> min, max |-> max]
mkStringRuntype == [k |-> "string", options |-> FALSE]
mkString(minLength, maxLength, trimOpt, match) ==
  [k |-> "string", options |-> TRUE, minLength |-> minLength,
   maxLength |-> maxLength, trim |-> trimOpt, match |-> match]
mkStringAsInteger == [k |-> "stringAsInteger"]
mkLiteral(lit) == [k |-> "literal", lit |-> lit]
mkArray(a) == [k |-> "array", a |-> a, maxLength |-> Undef, minLength |-> Undef]
mkArrayOpt(a, minLength, maxLength) ==
  [k |-> "array", a |-> a, maxLength |-> maxLength, minLength |-> minLength]
mkTuple(types) == [k |-> "tuple", types |-> types]
Field(name, t) == [k |-> name, t |-> t]
\* the keys for (k in o) and Object.keys(o) go through: the array indices in
\* ascending order, then the other keys in the order of their creation
isArrayIndex(k) == \E n \in 0..9 : Digits[n + 1] = k
RECURSIVE arrayIndexProperties(_, _)
arrayIndexProperties(properties, n) ==
  IF n > 9 THEN <<>>
  ELSE SelectSeq(properties, LAMBDA f : f.k = Digits[n + 1])
         \o arrayIndexProperties(properties, n + 1)
ownPropertyKeys(properties) ==
  arrayIndexProperties(properties, 0)
    \o SelectSeq(properties, LAMBDA f : ~isArrayIndex(f.k))

\* typemap is an object literal: the term holds its fields as for..in finds them
mkRecord(typemap) == [k |-> "record", typemap |-> ownPropertyKeys(typemap)]
mkStringIndex(t) == [k |-> "stringIndex", t |-> t]
mkNumberIndex(t) == [k |-> "numberIndex", t |-> t]
mkOptional(t) == [k |-> "optional", t |-> t]
mkNullable(t) == [k |-> "nullable", t |-> t]
mkUnion(runtypes) == [k |-> "union", runtypes |-> runtypes]
mkDiscriminatedUnion(key, runtypes) ==
  [k |-> "discriminatedUnion", key |-> key, runtypes |-> runtypes]
mkIntersection(a, b) == [k |-> "intersection", a |-> a, b |-> b]
mkDictionary(keyRuntype, valueRuntype) ==
  [k |-> "dictionary", keyRuntype |-> keyRuntype, valueRuntype |-> valueRuntype]
mkJson(rt) == [k |-> "json", rt |-> rt]
mkIgnore == [k |-> "ignore"]
mkNull == [k |-> "null"]
mkEnum(enumObject) == [k |-> "enum", enumObject |-> enumObject]
mkGuardedBy(typeGuard) == [k |-> "guardedBy", typeGuard |-> typeGuard]
\* runtype(fn) of ./custom
mkCustom(fn) == [k |-> "custom", fn |-> fn]

\* the second argument the constructor of rt passes to internalRuntype; the
\* constructors of index.ts pass none
RECURSIVE isPureArgument(_)
isPureArgument(rt) ==
  CASE rt.k \in {"any", "boolean", "integer", "literal", "json", "ignore", "null",
                 "enum", "guardedBy"} -> TRUE
    [] rt.k = "string" -> IF rt.options THEN ~rt.trim ELSE TRUE
    [] rt.k = "dictionary" ->
         isPureArgument(rt.keyRuntype) /\ isPureArgument(rt.valueRuntype)
    [] rt.k = "intersection" -> isPureArgument(rt.a) /\ isPureArgument(rt.b)
    [] OTHER -> FALSE

\* isPureRuntype of ./runtype: reads the flag internalRuntype stored
isPureRuntype(rt) == isPureArgument(rt)

(***************************************************************************)
(* Basic types.  d is the depth of the runtype being run: 0 for the        *)
(* runtype the caller invoked, one more for each child runtype.  The type  *)
(* checks a runtype runs on its own value (stringRuntype, integerRuntype,  *)
(* arrayRuntype, objectRuntype, jsonRuntype) run at its depth.             *)
(***************************************************************************)
any(rt, v, failOrThrow, d) == Return(v, TRUE, FALSE)

booleanRuntype(rt, v, failOrThrow, d) ==
  IF v.t = "boolean" THEN Return(v, TRUE, FALSE)
  ELSE createFail(failOrThrow, Msg("expected a boolean", Undef), v, d)

integerRuntype(v, failOrThrow, d) ==
  IF v.t = "number"   \* every number of the universe is a safe integer
  THEN Return(v, TRUE, FALSE)
  ELSE createFail(failOrThrow, Msg("expected a safe integer", Undef), v, d)

integer(rt, v, failOrThrow, d) ==
  IF ~rt.options THEN integerRuntype(v, failOrThrow, d)
  ELSE LET n == integerRuntype(v, failOrThrow, d)
       IN IF Thrown(n) THEN n
          ELSE IF isFail(n) THEN propagateFail(failOrThrow, n, v, Undef, d)
          ELSE IF rt.min # Undef /\ n.val.n < rt.min.n
          THEN createFail(failOrThrow, Msg("expected the integer to be >=", rt.min), v, d)
          ELSE IF rt.max # Undef /\ n.val.n > rt.max.n
          THEN createFail(failOrThrow, Msg("expected the integer to be <=", rt.max), v, d)
          ELSE n

stringRuntype(v, failOrThrow, d) ==
  IF typeof(v) = "string" THEN Return(v, TRUE, FALSE)
  ELSE createFail(failOrThrow, Msg("expected a string", Undef), v, d)

string(rt, v, failOrThrow, d) ==
  IF ~rt.options THEN stringRuntype(v, failOrThrow, d)
  ELSE LET s == stringRuntype(v, failOrThrow, d)
       IN IF Thrown(s) THEN s
          ELSE IF isFail(s) THEN propagateFail(failOrThrow, s, v, Undef, d)
          ELSE IF rt.minLength # Undef /\ length(s.val.s) < rt.minLength.n
          THEN createFail(failOrThrow,
                 Msg("expected the string length to be at least", rt.minLength), v, d)
          ELSE IF rt.maxLength # Undef /\ length(s.val.s) > rt.maxLength.n
          THEN createFail(failOrThrow,
                 Msg("expected the string length to not exceed", rt.maxLength), v, d)
          ELSE IF rt.match # Undef /\ ~test(rt.match, s.val.s)
          THEN createFail(failOrThrow,
                 Msg("expected the string to match", rt.match), v, d)
          ELSE IF rt.trim
          THEN Return(Str(trim(s.val.s)), trim(s.val.s) = s.val.s, FALSE)
          ELSE s

stringAsIntegerRuntype(v, failOrThrow, d) ==
  IF typeof(v) = "string"
  THEN LET parsedNumber == parseInt(v.s)
           n == integerRuntype(parsedNumber, failSymbol, d)
       IN IF isFail(n) THEN propagateFail(failOrThrow, n, v, Undef, d)
          ELSE IF toString(n.val.n) # sansLeadingPlus(v.s)
          THEN createFail(failOrThrow,
                 Msg("expected string to contain only the safe integer", Undef), v, d)
          ELSE Return(n.val, FALSE, FALSE)
  ELSE createFail(failOrThrow,
         Msg("expected a string that contains a safe integer", Undef), v, d)

literal(rt, v, failOrThrow, d) ==
  IF v = rt.lit THEN Return(rt.lit, TRUE, FALSE)
  ELSE createFail(failOrThrow, Msg("expected a literal:", rt.lit), v, d)

\* the runtype of ignore()
ignore(rt, v, failOrThrow, d) == Return(Undef, v = Undef, FALSE)

nullRt(rt, v, failOrThrow, d) ==
  IF v # Null THEN createFail(failOrThrow, Msg("expected null", Undef), v, d)
  ELSE Return(v, TRUE, FALSE)

\* Object.values(enumObject).indexOf(v) !== -1
isEnumValue(enumObject, v) ==
  \E i \in 1..Len(enumObject.e) : enumObject.e[i].v = v

enumRuntype(rt, v, failOrThrow, d) ==
  IF typeof(v) = "number" /\ v.t = "number"
       /\ Get(rt.enumObject, toString(v.n)) # Undef
  THEN Return(v, TRUE, FALSE)
  ELSE IF isEnumValue(rt.enumObject, v) THEN Return(v, TRUE, FALSE)
  ELSE createFail(failOrThrow,
         Msg("expected a value that belongs to the enum", rt.enumObject), v, d)

\* the type guards of the universe, each named by what it tests
typeGuard(name, v) ==
  CASE name = "isString" -> typeof(v) = "string"
    [] OTHER -> FALSE

\* the runtype of runtype((v) => v)
custom(rt, v, failOrThrow, d) == Return(v, TRUE, FALSE)

guardedBy(rt, v, failOrThrow, d) ==
  IF ~typeGuard(rt.typeGuard, v)
  THEN createFail(failOrThrow, Msg("expected typeguard to return true", Undef), v, d)
  ELSE Return(v, TRUE, FALSE)

arrayRuntype(v, failOrThrow, d) ==
  IF isArray(v) THEN Return(v, TRUE, FALSE)
  ELSE createFail(failOrThrow, Msg("expected an Array", Undef), v, d)

objectRuntype(v, failOrThrow, d) ==
  IF typeof(v) = "object" /\ ~isArray(v) /\ v # Null
  THEN Return(v, TRUE, FALSE)
  ELSE createFail(failOrThrow, Msg("expected an object", Undef), v, d)

(***************************************************************************)
(* Containers and combinators.  Run(rt, v, failOrThrow, d) calls the       *)
(* function of runtype rt.                                                 *)
(***************************************************************************)
RECURSIVE Run(_, _, _, _)

RECURSIVE arrayItems(_, _, _, _, _, _)
arrayItems(rt, v, failOrThrow, d, i, res) ==
  IF i >= Len(v.items) THEN Return(Arr(res), FALSE, FALSE)
  ELSE LET item == Run(rt.a, v.items[i + 1], failSymbol, d + 1)
       IN IF Thrown(item) THEN item
          ELSE IF isFail(item) THEN propagateFail(failOrThrow, item, v, Num(i), d)
          ELSE arrayItems(rt, v, failOrThrow, d, i + 1, Append(res, item.val))

array(rt, v, failOrThrow, d) ==
  LET arrayValue == arrayRuntype(v, failOrThrow, d)
  IN IF Thrown(arrayValue) THEN arrayValue
     ELSE IF isFail(arrayValue) THEN propagateFail(failOrThrow, arrayValue, v, Undef, d)
     ELSE IF rt.maxLength # Undef /\ Len(v.items) > rt.maxLength.n
     THEN createFail(failOrThrow,
            Msg("expected the array to contain at most", rt.maxLength), v, d)
     ELSE IF rt.minLength # Undef /\ Len(v.items) < rt.minLength.n
     THEN createFail(failOrThrow,
            Msg("expected the array to contain at least", rt.minLength), v, d)
     ELSE arrayItems(rt, v, failOrThrow, d, 0, <<>>)

RECURSIVE tupleItems(_, _, _, _, _, _)
tupleItems(rt, v, failOrThrow, d, i, res) ==
  IF i >= Len(rt.types) THEN Return(Arr(res), FALSE, FALSE)
  ELSE LET item == Run(rt.types[i + 1], v.items[i + 1], failSymbol, d + 1)
       IN IF Thrown(item) THEN item
          ELSE IF isFail(item) THEN propagateFail(failOrThrow, item, v, Num(i), d)
          ELSE tupleItems(rt, v, failOrThrow, d, i + 1, Append(res, item.val))

tuple(rt, v, failOrThrow, d) ==
  LET a == arrayRuntype(v, failOrThrow, d)
  IN IF Thrown(a) THEN a
     ELSE IF isFail(a) THEN propagateFail(failOrThrow, a, v, Undef, d)
     ELSE IF Len(v.items) # Len(rt.types)
     THEN createFail(failOrThrow,
            Msg("tuple array does not have the required length", Undef), v, d)
     ELSE tupleItems(rt, v, failOrThrow, d, 0, <<>>)

\* for (let k in o) of stringIndex
RECURSIVE stringIndexKeys(_, _, _, _, _, _)
stringIndexKeys(rt, v, failOrThrow, d, i, res) ==
  IF i > Len(v.e) THEN Return(Obj(res.e, FALSE), FALSE, res.protoSet)
  ELSE LET k == v.e[i].k
           value == Run(rt.t, Get(v, k), failSymbol, d + 1)
       IN IF Thrown(value) THEN value
          ELSE IF isFail(value) THEN propagateFail(failOrThrow, value, v, Str(k), d)
          ELSE stringIndexKeys(rt, v, failOrThrow, d, i + 1, ObjSet(res, k, value.val))

stringIndex(rt, v, failOrThrow, d) ==
  LET o == objectRuntype(v, failOrThrow, d)
  IN IF Thrown(o) THEN o
     ELSE IF isFail(o) THEN propagateFail(failOrThrow, o, v, Undef, d)
     ELSE stringIndexKeys(rt, v, failOrThrow, d, 1, NewObject)

\* for (let k in o) of numberIndex
RECURSIVE numberIndexKeys(_, _, _, _, _, _)
numberIndexKeys(rt, v, failOrThrow, d, i, res) ==
  IF i > Len(v.e) THEN Return(Obj(res.e, FALSE), FALSE, res.protoSet)
  ELSE LET k == v.e[i].k
           key == stringAsIntegerRuntype(Str(k), failOrThrow, d + 1)
       IN IF Thrown(key) THEN key
          ELSE IF isFail(key) THEN propagateFail(failOrThrow, key, v, Undef, d)
          ELSE LET value == Run(rt.t, Get(v, toString(key.val.n)), failSymbol, d + 1)
               IN IF Thrown(value) THEN value
                  ELSE IF isFail(value)
                  THEN propagateFail(failOrThrow, value, v, key.val, d)
                  ELSE numberIndexKeys(rt, v, failOrThrow, d, i + 1,
                         ObjSet(res, toString(key.val.n), value.val))

numberIndex(rt, v, failOrThrow, d) ==
  LET o == objectRuntype(v, failOrThrow, d)
  IN IF Thrown(o) THEN o
     ELSE IF isFail(o) THEN propagateFail(failOrThrow, o, v, Undef, d)
     ELSE numberIndexKeys(rt, v, failOrThrow, d, 1, NewObject)

\* for (const k in typemap) of record
RECURSIVE recordFields(_, _, _, _, _, _)
recordFields(rt, v, failOrThrow, d, i, res) ==
  IF i > Len(rt.typemap) THEN Return(Obj(res.e, FALSE), FALSE, res.protoSet)
  ELSE LET k == rt.typemap[i].k
           value == Run(rt.typemap[i].t, Get(v, k), failSymbol, d + 1)
       IN IF Thrown(value) THEN value
          ELSE IF isFail(value) THEN propagateFail(failOrThrow, value, v, Str(k), d)
          ELSE recordFields(rt, v, failOrThrow, d, i + 1, ObjSet(res, k, value.val))

\* a record that looks for unknown keys before it runs the field runtypes
recordKeysFirst(rt, v, failOrThrow, d) ==
  LET o == objectRuntype(v, failOrThrow, d)
      unknownKeys == SelectSeq(OwnKeys(v), LAMBDA k : ~HasOwn(rt.typemap, k))
  IN IF Thrown(o) THEN o
     ELSE IF isFail(o) THEN propagateFail(failOrThrow, o, v, Undef, d)
     ELSE IF Len(unknownKeys) > 0
     THEN createFail(failOrThrow,
            Msg("invalid keys in record",
                Arr([j \in 1..Len(unknownKeys) |-> Str(unknownKeys[j])])),
            v, d)
     ELSE recordFields(rt, v, failOrThrow, d, 1, NewObject)

\* a record that does not look for keys outside its typemap
recordAnyKeys(rt, v, failOrThrow, d) ==
  LET o == objectRuntype(v, failOrThrow, d)
  IN IF Thrown(o) THEN o
     ELSE IF isFail(o) THEN propagateFail(failOrThrow, o, v, Undef, d)
     ELSE recordFields(rt, v, failOrThrow, d, 1, NewObject)

record(rt, v, failOrThrow, d) ==
  LET o == objectRuntype(v, failOrThrow, d)
  IN IF Thrown(o) THEN o
     ELSE IF isFail(o) THEN propagateFail(failOrThrow, o, v, Undef, d)
     ELSE LET res == recordFields(rt, v, failOrThrow, d, 1, NewObject)
          IN IF res.r # "ok" THEN res
             ELSE LET unknownKeys ==
                        SelectSeq(OwnKeys(v), LAMBDA k : ~HasOwn(res.val.e, k))
                  IN IF Len(unknownKeys) > 0
                     THEN createFail(failOrThrow,
                            Msg("invalid keys in record",
                                Arr([j \in 1..Len(unknownKeys) |-> Str(unknownKeys[j])])),
                            v, d)
                     ELSE res

optional(rt, v, failOrThrow, d) ==
  IF v = Undef THEN Return(Undef, TRUE, FALSE)
  ELSE Run(rt.t, v, failOrThrow, d + 1)

\* a nullable that makes undefined of null
nullableToUndefined(rt, v, failOrThrow, d) ==
  IF v = Null THEN Return(Undef, FALSE, FALSE)
  ELSE Run(rt.t, v, failOrThrow, d + 1)

nullable(rt, v, failOrThrow, d) ==
  IF v = Null THEN Return(Null, TRUE, FALSE)
  ELSE Run(rt.t, v, failOrThrow, d + 1)

\* t.fields[key].literal of a record runtype t
tagValueOf(t, key) ==
  LET hits == {i \in 1..Len(t.typemap) : t.typemap[i].k = key}
  IN IF hits = {} \/ t.typemap[CHOOSE i \in hits : TRUE].t.k # "literal" THEN Undef
     ELSE t.typemap[CHOOSE i \in hits : TRUE].t.lit

\* a lookup that finds the runtype set first for the tag
typeMapGetFirst(rt, tagValue) ==
  LET hits == {i \in 1..Len(rt.runtypes) : tagValueOf(rt.runtypes[i], rt.key) = tagValue}
  IN IF hits = {} THEN 0 ELSE CHOOSE i \in hits : \A j \in hits : i <= j

\* typeMap.get(tagValue): the index of the runtype set last for the tag, 0 if none
typeMapGet(rt, tagValue) ==
  LET hits == {i \in 1..Len(rt.runtypes) : tagValueOf(rt.runtypes[i], rt.key) = tagValue}
  IN IF hits = {} THEN 0 ELSE CHOOSE i \in hits : \A j \in hits : j <= i

\* a discriminated union that takes the tag for the whole check
discriminatedUnionTagOnly(rt, v, failOrThrow, d) ==
  LET o == objectRuntype(v, failOrThrow, d)
  IN IF Thrown(o) THEN o
     ELSE IF isFail(o) THEN propagateFail(failOrThrow, o, v, Undef, d)
     ELSE LET tagValue == Get(v, rt.key)
              i == typeMapGet(rt, tagValue)
          IN IF i = 0
             THEN createFail(failOrThrow,
                    Msg("no Runtype found for discriminated union tag", tagValue), v, d)
             ELSE Return(v, TRUE, FALSE)

discriminatedUnion(rt, v, failOrThrow, d) ==
  LET o == objectRuntype(v, failOrThrow, d)
  IN IF Thrown(o) THEN o
     ELSE IF isFail(o) THEN propagateFail(failOrThrow, o, v, Undef, d)
     ELSE LET tagValue == Get(v, rt.key)
              i == typeMapGet(rt, tagValue)
          IN IF i = 0
             THEN createFail(failOrThrow,
                    Msg("no Runtype found for discriminated union tag", tagValue), v, d)
             ELSE Run(rt.runtypes[i], v, failOrThrow, d + 1)

\* the for loop of union: the first value that is no Fail, else the last Fail
RECURSIVE unionRuntypes(_, _, _, _, _)
\* a loop over the alternatives that lets a failing alternative throw
RECURSIVE unionRuntypesThrowing(_, _, _, _, _)
unionRuntypesThrowing(rt, v, d, i, lastFail) ==
  IF i > Len(rt.runtypes) THEN lastFail
  ELSE LET val == Run(rt.runtypes[i], v, undefined, d + 1)
       IN IF ~isFail(val) THEN val
          ELSE unionRuntypesThrowing(rt, v, d, i + 1, val)

\* a loop over the alternatives that keeps the first failure
RECURSIVE unionRuntypesFirstFail(_, _, _, _, _)
unionRuntypesFirstFail(rt, v, d, i, lastFail) ==
  IF i > Len(rt.runtypes) THEN lastFail
  ELSE LET val == Run(rt.runtypes[i], v, failSymbol, d + 1)
       IN IF ~isFail(val) THEN val
          ELSE unionRuntypesFirstFail(rt, v, d, i + 1,
                 IF lastFail = Undef THEN val ELSE lastFail)

unionRuntypes(rt, v, d, i, lastFail) ==
  IF i > Len(rt.runtypes) THEN lastFail
  ELSE LET val == Run(rt.runtypes[i], v, failSymbol, d + 1)
       IN IF ~isFail(val) THEN val
          ELSE unionRuntypes(rt, v, d, i + 1, val)

union(rt, v, failOrThrow, d) ==
  LET val == unionRuntypes(rt, v, d, 1, Undef)
  IN IF isFail(val) THEN propagateFail(failOrThrow, val, v, Undef, d)
     ELSE val

\* an intersection that returns the value of the first runtype
intersection2PrefersFirst(rt, v, failOrThrow, d) ==
  LET valFromA == Run(rt.a, v, failOrThrow, d + 1)
      valFromB == Run(rt.b, v, failOrThrow, d + 1)
  IN IF Thrown(valFromA) THEN valFromA
     ELSE IF Thrown(valFromB) THEN valFromB
     ELSE IF isFail(valFromB) THEN propagateFail(failOrThrow, valFromB, v, Undef, d)
     ELSE IF isFail(valFromA) THEN propagateFail(failOrThrow, valFromA, v, Undef, d)
     ELSE valFromA

\* the runtype intersection2 returns for two runtypes that are neither
\* records nor unions
intersection2(rt, v, failOrThrow, d) ==
  LET valFromA == Run(rt.a, v, failOrThrow, d + 1)
      valFromB == Run(rt.b, v, failOrThrow, d + 1)
  IN IF Thrown(valFromA) THEN valFromA
     ELSE IF Thrown(valFromB) THEN valFromB
     ELSE IF isFail(valFromB) THEN propagateFail(failOrThrow, valFromB, v, Undef, d)
     ELSE IF isFail(valFromA) THEN propagateFail(failOrThrow, valFromA, v, Undef, d)
     ELSE valFromB

\* res[keyOrFail]: the property key of a validated key
propertyKey(val) == IF val.t = "number" THEN toString(val.n) ELSE val.s

\* a loop over the keys that lets "__proto__" through to the key runtype
RECURSIVE dictionaryKeysAnyKey(_, _, _, _, _, _, _)
dictionaryKeysAnyKey(rt, v, failOrThrow, d, isPure, i, res) ==
  IF i > Len(v.e)
  THEN IF isPure THEN Return(v, TRUE, FALSE)
       ELSE Return(Obj(res.e, FALSE), FALSE, res.protoSet)
  ELSE LET keyOrFail == Run(rt.keyRuntype, Str(v.e[i].k), failOrThrow, d + 1)
           valueOrFail == Run(rt.valueRuntype, v.e[i].v, failOrThrow, d + 1)
       IN IF Thrown(keyOrFail) THEN keyOrFail
          ELSE IF isFail(keyOrFail)
          THEN propagateFail(failOrThrow, keyOrFail, v, Undef, d)
          ELSE IF Thrown(valueOrFail) THEN valueOrFail
          ELSE IF isFail(valueOrFail)
          THEN propagateFail(failOrThrow, valueOrFail, v, Undef, d)
          ELSE dictionaryKeysAnyKey(rt, v, failOrThrow, d, isPure, i + 1,
                 IF isPure THEN res
                 ELSE ObjSet(res, propertyKey(keyOrFail.val), valueOrFail.val))

\* what the call did to the object it was called on, res being the object
\* it assigned to
Wrote(res, out) == [out EXCEPT !.written = res.isInput /\ res.assigned]

\* a loop over the keys that assigns every validated entry to res
RECURSIVE dictionaryKeysUnguarded(_, _, _, _, _, _, _)
dictionaryKeysUnguarded(rt, v, failOrThrow, d, isPure, i, res) ==
  IF i > Len(v.e)
  THEN Wrote(res, Return(Obj(res.e, FALSE), res.isInput /\ ~res.assigned, res.protoSet))
  ELSE LET key == v.e[i].k
       IN IF key = "__proto__"
          THEN Wrote(res, createFail(failOrThrow,
                            Msg("invalid key in dictionary:", Str(key)), v, d))
          ELSE LET keyOrFail == Run(rt.keyRuntype, Str(key), failOrThrow, d + 1)
                   valueOrFail == Run(rt.valueRuntype, v.e[i].v, failOrThrow, d + 1)
               IN IF Thrown(keyOrFail) THEN Wrote(res, keyOrFail)
                  ELSE IF isFail(keyOrFail)
                  THEN Wrote(res, propagateFail(failOrThrow, keyOrFail, v, Undef, d))
                  ELSE IF Thrown(valueOrFail) THEN Wrote(res, valueOrFail)
                  ELSE IF isFail(valueOrFail)
                  THEN Wrote(res, propagateFail(failOrThrow, valueOrFail, v, Undef, d))
                  ELSE dictionaryKeysUnguarded(rt, v, failOrThrow, d, isPure, i + 1,
                         ObjSet(res, propertyKey(keyOrFail.val), valueOrFail.val))

\* for (const key in o) of dictionaryRuntype; res is o for a pure dictionary
\* and a new object otherwise
RECURSIVE dictionaryKeys(_, _, _, _, _, _, _)
dictionaryKeys(rt, v, failOrThrow, d, isPure, i, res) ==
  IF i > Len(v.e)
  THEN Wrote(res, Return(Obj(res.e, FALSE), res.isInput /\ ~res.assigned, res.protoSet))
  ELSE LET key == v.e[i].k
       IN IF key = "__proto__"
          THEN Wrote(res, createFail(failOrThrow,
                            Msg("invalid key in dictionary:", Str(key)), v, d))
          ELSE LET keyOrFail == Run(rt.keyRuntype, Str(key), failOrThrow, d + 1)
                   valueOrFail == Run(rt.valueRuntype, v.e[i].v, failOrThrow, d + 1)
               IN IF Thrown(keyOrFail) THEN Wrote(res, keyOrFail)
                  ELSE IF isFail(keyOrFail)
                  THEN Wrote(res, propagateFail(failOrThrow, keyOrFail, v, Undef, d))
                  ELSE IF Thrown(valueOrFail) THEN Wrote(res, valueOrFail)
                  ELSE IF isFail(valueOrFail)
                  THEN Wrote(res, propagateFail(failOrThrow, valueOrFail, v, Undef, d))
                  ELSE dictionaryKeys(rt, v, failOrThrow, d, isPure, i + 1,
                         IF isPure THEN res
                         ELSE ObjSet(res, propertyKey(keyOrFail.val), valueOrFail.val))

\* a dictionary that takes its purity from the key runtype alone
dictionaryRuntypeKeyPure(rt, v, failOrThrow, d) ==
  LET isPure == isPureRuntype(rt.keyRuntype)
      o == objectRuntype(v, failOrThrow, d)
  IN IF Thrown(o) THEN o
     ELSE IF isFail(o) THEN propagateFail(failOrThrow, o, v, Undef, d)
     ELSE IF v.sym
     THEN createFail(failOrThrow, Msg("invalid key in dictionary:", Str("Symbol()")), v, d)
     ELSE dictionaryKeys(rt, v, failOrThrow, d, isPure, 1,
            IF isPure THEN InputObject(v) ELSE NewObject)

dictionaryRuntype(rt, v, failOrThrow, d) ==
  LET isPure == isPureRuntype(rt.keyRuntype) /\ isPureRuntype(rt.valueRuntype)
      o == objectRuntype(v, failOrThrow, d)
  IN IF Thrown(o) THEN o
     ELSE IF isFail(o) THEN propagateFail(failOrThrow, o, v, Undef, d)
     ELSE IF v.sym
     THEN createFail(failOrThrow, Msg("invalid key in dictionary:", Str("Symbol()")), v, d)
     ELSE dictionaryKeys(rt, v, failOrThrow, d, isPure, 1,
            IF isPure THEN InputObject(v) ELSE NewObject)

jsonRuntype(v, failOrThrow, d) ==
  IF typeof(v) # "string"
  THEN createFail(failOrThrow, Msg("expected a json string", Undef), v, d)
  ELSE IF JSONparse(v.s).ok
  THEN Return(JSONparse(v.s).data, FALSE, FALSE)
  ELSE createFail(failOrThrow, Msg("expected a json string: SyntaxError", Undef), v, d)

\* use(r, v) of ./custom: runs r on v and reports a Fail as { ok: false, error }
use(r, v, d) == Run(r, v, failSymbol, d + 1)

json(rt, v, failOrThrow, d) ==
  LET n == jsonRuntype(v, failOrThrow, d)
  IN IF Thrown(n) THEN n
     ELSE IF isFail(n) THEN propagateFail(failOrThrow, n, v, Undef, d)
     ELSE LET validationResult == use(rt.rt, n.val, d)
          IN IF Thrown(validationResult) THEN validationResult
             ELSE IF isFail(validationResult)
             THEN propagateFail(failOrThrow, validationResult, v, Undef, d)
             ELSE [validationResult EXCEPT !.same = FALSE]

Run(rt, v, failOrThrow, d) ==
  CASE rt.k = "any" -> any(rt, v, failOrThrow, d)
    [] rt.k = "boolean" -> booleanRuntype(rt, v, failOrThrow, d)
    [] rt.k = "integer" -> integer(rt, v, failOrThrow, d)
    [] rt.k = "string" -> string(rt, v, failOrThrow, d)
    [] rt.k = "stringAsInteger" -> stringAsIntegerRuntype(v, failOrThrow, d)
    [] rt.k = "literal" -> literal(rt, v, failOrThrow, d)
    [] rt.k = "array" -> array(rt, v, failOrThrow, d)
    [] rt.k = "tuple" -> tuple(rt, v, failOrThrow, d)
    [] rt.k = "stringIndex" -> stringIndex(rt, v, failOrThrow, d)
    [] rt.k = "numberIndex" -> numberIndex(rt, v, failOrThrow, d)
    [] rt.k = "record" -> record(rt, v, failOrThrow, d)
    [] rt.k = "optional" -> optional(rt, v, failOrThrow, d)
    [] rt.k = "nullable" -> nullable(rt, v, failOrThrow, d)
    [] rt.k = "discriminatedUnion" -> discriminatedUnion(rt, v, failOrThrow, d)
    [] rt.k = "union" -> union(rt, v, failOrThrow, d)
    [] rt.k = "intersection" -> intersection2(rt, v, failOrThrow, d)
    [] rt.k = "dictionary" -> dictionaryRuntype(rt, v, failOrThrow, d)
    [] rt.k = "json" -> json(rt, v, failOrThrow, d)
    [] rt.k = "ignore" -> ignore(rt, v, failOrThrow, d)
    [] rt.k = "null" -> nullRt(rt, v, failOrThrow, d)
    [] rt.k = "enum" -> enumRuntype(rt, v, failOrThrow, d)
    [] rt.k = "guardedBy" -> guardedBy(rt, v, failOrThrow, d)
    [] rt.k = "custom" -> custom(rt, v, failOrThrow, d)

(***************************************************************************)
(* Constructors that read the metadata of their arguments.  A constructor  *)
(* call ends with a runtype or with a thrown error; original is the        *)
(* runtype handed to pick, omit or partial as the call leaves it.          *)
(***************************************************************************)
Constructed(rt, original) ==
  [c |-> "runtype", rt |-> rt, err |-> "none", original |-> original]
Raised(err, original) ==
  [c |-> "throw", rt |-> Undef, err |-> err, original |-> original]

\* (rt as any).fields, set by record; undefined on every other runtype
fields(rt) == IF rt.k = "record" THEN rt.typemap ELSE Undef

\* fields[k]
fieldsGet(typemap, k) ==
  IF HasOwn(typemap, k)
  THEN (CHOOSE f \in {typemap[i] : i \in 1..Len(typemap)} : f.k = k).t
  ELSE Undef

\* (rt as any).meta.type; the runtypes of index.ts set no meta
metaType(rt) ==
  IF rt.k \in {"record", "any", "boolean", "integer", "string", "literal",
               "json", "ignore", "null", "enum", "guardedBy", "custom"}
  THEN rt.k ELSE "undefined"

\* 'unions' in rt
hasUnions(rt) == rt.k = "union"

\* runtypes.forEach of discriminatedUnion, from the i-th runtype on
RECURSIVE typeMapSet(_, _, _)
typeMapSet(key, runtypes, i) ==
  IF i > Len(runtypes) THEN Constructed(mkDiscriminatedUnion(key, runtypes), Undef)
  ELSE LET t == runtypes[i]
           runtype == fieldsGet(fields(t), key)
           tagValue == IF runtype.k = "literal" THEN runtype.lit ELSE Undef
       IN IF t.k # "record"   \* t.fields is undefined
          THEN Raised("TypeError", Undef)
          ELSE IF runtype = Undef THEN Raised("TypeError", Undef)
          ELSE IF tagValue = Undef THEN Raised("RuntypeUsageError", Undef)
          ELSE IF ~(typeof(tagValue) = "string" \/ typeof(tagValue) = "number")
          THEN Raised("RuntypeUsageError", Undef)
          ELSE typeMapSet(key, runtypes, i + 1)

\* discriminatedUnion(key, ...runtypes)
discriminatedUnionOf(key, runtypes) == typeMapSet(key, runtypes, 1)

\* intersection(a, b): intersection2 of intersection.ts
RECURSIVE intersection(_, _)

\* the keys of { ...a, ...b }
spreadKeys(a, b) ==
  [i \in 1..Len(a) |-> a[i].k]
    \o SelectSeq([i \in 1..Len(b) |-> b[i].k], LAMBDA k : ~HasOwn(a, k))

\* for (const k in { ...a, ...b }) of recordIntersection2, then record(fields)
RECURSIVE recordIntersection2Fields(_, _, _, _, _)
recordIntersection2Fields(a, b, keys, i, newFields) ==
  IF i > Len(keys) THEN Constructed(mkRecord(newFields), Undef)
  ELSE LET k == keys[i]
           both == intersection(fieldsGet(a, k), fieldsGet(b, k))
       IN IF HasOwn(a, k) /\ HasOwn(b, k)
          THEN IF both.c = "throw" THEN both
               ELSE recordIntersection2Fields(a, b, keys, i + 1,
                      Append(newFields, Field(k, both.rt)))
          ELSE IF HasOwn(a, k)
          THEN recordIntersection2Fields(a, b, keys, i + 1,
                 Append(newFields, Field(k, fieldsGet(a, k))))
          ELSE recordIntersection2Fields(a, b, keys, i + 1,
                 Append(newFields, Field(k, fieldsGet(b, k))))

\* a merge of the two field maps in which recordA's field stands for both
recordIntersection2Merge(recordA, recordB) ==
  Constructed(
    mkRecord(fields(recordA)
               \o SelectSeq(fields(recordB),
                            LAMBDA f : ~HasOwn(fields(recordA), f.k))),
    Undef)

recordIntersection2(recordA, recordB) ==
  recordIntersection2Fields(fields(recordA), fields(recordB),
    spreadKeys(fields(recordA), fields(recordB)), 1, <<>>)

\* a distribution that unites the intersections in the opposite order
unionIntersection2Reversed(u, b) ==
  LET mapped == [i \in 1..Len(u.runtypes) |->
                   intersection(u.runtypes[Len(u.runtypes) + 1 - i], b)]
      thrown == {i \in 1..Len(mapped) : mapped[i].c = "throw"}
  IN IF thrown # {} THEN mapped[CHOOSE i \in thrown : \A j \in thrown : i <= j]
     ELSE Constructed(mkUnion([i \in 1..Len(mapped) |-> mapped[i].rt]), Undef)

\* union(...unionRuntypes.map((a) => intersection2(a, b)))
unionIntersection2(u, b) ==
  LET mapped == [i \in 1..Len(u.runtypes) |-> intersection(u.runtypes[i], b)]
      thrown == {i \in 1..Len(mapped) : mapped[i].c = "throw"}
  IN IF thrown # {} THEN mapped[CHOOSE i \in thrown : \A j \in thrown : i <= j]
     ELSE Constructed(mkUnion([i \in 1..Len(mapped) |-> mapped[i].rt]), Undef)

intersection(a, b) ==
  IF metaType(a) = "record" /\ metaType(b) = "record" THEN recordIntersection2(a, b)
  ELSE IF hasUnions(a) /\ metaType(b) = "record" THEN unionIntersection2(a, b)
  ELSE IF hasUnions(b) /\ metaType(a) = "record" THEN unionIntersection2(b, a)
  ELSE IF metaType(a) = "record" \/ metaType(b) = "record"
  THEN Raised("RuntypeUsageError", Undef)
  ELSE Constructed(mkIntersection(a, b), Undef)

\* pick(original, ...keys) of pick.ts
pick(original, keys) ==
  IF metaType(original) # "record" THEN Raised("RuntypeUsageError", original)
  ELSE Constructed(
         mkRecord([i \in 1..Len(keys) |->
                     Field(keys[i], fieldsGet(original.typemap, keys[i]))]),
         original)

\* an omit that deletes the keys from the fields of original
omitInPlace(original, keys) ==
  IF original.k # "record" THEN Raised("RuntypeUsageError", original)
  ELSE LET newRecordFields ==
             SelectSeq(fields(original),
                       LAMBDA f : \A i \in 1..Len(keys) : keys[i] # f.k)
       IN Constructed(mkRecord(newRecordFields), mkRecord(newRecordFields))

\* omit(original, ...keys): newRecordFields is a copy of fields, and the keys
\* are deleted from the copy
omit(original, keys) ==
  IF original.k # "record"   \* !fields
  THEN Raised("RuntypeUsageError", original)
  ELSE LET newRecordFields ==
             SelectSeq(fields(original),
                       LAMBDA f : \A i \in 1..Len(keys) : keys[i] # f.k)
       IN Constructed(mkRecord(newRecordFields), original)

\* a partial that takes any runtype
partialOfAny(original) ==
  IF original.k # "record" THEN Constructed(mkRecord(<<>>), original)
  ELSE Constructed(
         mkRecord([i \in 1..Len(original.typemap) |->
                     Field(original.typemap[i].k, mkOptional(original.typemap[i].t))]),
         original)

\* partial(original): every field of meta.fields wrapped in optional
partial(original) ==
  IF metaType(original) # "record" THEN Raised("RuntypeUsageError", original)
  ELSE Constructed(
         mkRecord([i \in 1..Len(original.typemap) |->
                     Field(original.typemap[i].k, mkOptional(original.typemap[i].t))]),
         original)

(***************************************************************************)
(* toSchema: the schema text of a runtype, read from its meta.             *)
(***************************************************************************)
Returned(text) == [c |-> "return", s |-> text, err |-> "none"]
ThrownError(err) == [c |-> "throw", s |-> "", err |-> err]

\* JSON.stringify of a string, a number or a boolean
JSONstringify(v) ==
  CASE v.t = "string" -> "\"" \o v.s \o "\""
    [] v.t = "number" -> toString(v.n)
    [] v.t = "boolean" -> IF v.b THEN "true" ELSE "false"

\* strings.join(separator)
RECURSIVE join(_, _)
join(strings, separator) ==
  IF Len(strings) = 0 THEN ""
  ELSE IF Len(strings) = 1 THEN strings[1]
  ELSE strings[1] \o separator \o join(Tail(strings), separator)

literalToSchema(rt) == JSONstringify(rt.lit)

\* an enum schema that lists the values of the enum object
enumToSchemaOfValues(rt) ==
  join([i \in 1..Len(rt.enumObject.e) |-> JSONstringify(rt.enumObject.e[i].v)], " | ")

enumToSchema(rt) ==
  join([i \in 1..Len(OwnKeys(rt.enumObject)) |-> JSONstringify(Str(OwnKeys(rt.enumObject)[i]))],
       " | ")

RECURSIVE toSchema(_)

\* recordToSchema of ./record: one line "  key: schema;" for each field
RECURSIVE recordToSchemaFields(_, _, _)
recordToSchemaFields(rt, i, lines) ==
  IF i > Len(rt.typemap) THEN Returned(join(<<"{">> \o lines \o <<"}">>, "\n"))
  ELSE LET field == toSchema(rt.typemap[i].t)
       IN IF field.c = "throw" THEN field
          ELSE recordToSchemaFields(rt, i + 1,
                 Append(lines, "  " \o rt.typemap[i].k \o ": " \o field.s \o ";"))

recordToSchema(rt) == recordToSchemaFields(rt, 1, <<>>)

toSchema(rt) ==
  LET type == metaType(rt)
  IN CASE type = "undefined" -> ThrownError("Error")
       [] type = "any" -> Returned("any")
       [] type = "boolean" -> Returned("boolean")
       [] type = "custom" -> Returned("any")
       [] type = "enum" -> Returned(enumToSchema(rt))
       [] type = "guardedBy" -> Returned("any")
       [] type = "ignore" -> Returned("any")
       [] type = "integer" -> Returned("number")
       [] type = "json" -> Returned("string")
       [] type = "literal" -> Returned(literalToSchema(rt))
       [] type = "record" -> recordToSchema(rt)
       [] type = "string" -> Returned("string")
       [] OTHER -> ThrownError("Error")

(***************************************************************************)
(* The runtypes and the input values of the universe.                      *)
(***************************************************************************)
intRt == mkIntegerRuntype
strRt == mkStringRuntype
trimRt == mkString(Undef, Undef, TRUE, Undef)
shortRt == mkString(Undef, Num(1), FALSE, Undef)
trimMin2 == mkString(Num(2), Undef, TRUE, Undef)
lit1 == mkLiteral(Num(1))
lit2 == mkLiteral(Num(2))
recA == mkRecord(<<Field("a", intRt)>>)
recAstr == mkRecord(<<Field("a", strRt)>>)
recAB == mkRecord(<<Field("a", intRt), Field("b", strRt)>>)
recProto == mkRecord(<<Field("__proto__", intRt)>>)
recAProto == mkRecord(<<Field("a", intRt), Field("__proto__", intRt)>>)
recOpt == mkRecord(<<Field("a", mkOptional(intRt))>>)
recNested == mkRecord(<<Field("a", recA)>>)
recArr == mkRecord(<<Field("a", mkArray(intRt))>>)
tag1 == mkRecord(<<Field("a", lit1), Field("b", strRt)>>)
tagX == mkRecord(<<Field("a", mkLiteral(Str("x")))>>)
dictPure == mkDictionary(strRt, intRt)
dictTrim == mkDictionary(trimRt, intRt)
dictTrimRec == mkDictionary(trimRt, recA)
dictShort == mkDictionary(shortRt, intRt)
dictRec == mkDictionary(strRt, recA)
discU == mkDiscriminatedUnion("a", <<tag1, tagX>>)
tagXb == mkRecord(<<Field("a", mkLiteral(Str("x"))), Field("b", intRt)>>)
tagBool == mkRecord(<<Field("a", mkLiteral(Bool(TRUE)))>>)
recB == mkRecord(<<Field("b", strRt)>>)
recNestedB == mkRecord(<<Field("a", recB)>>)
\* record({ b: string(), 1: integer() })
recB1 == mkRecord(<<Field("b", strRt), Field("1", intRt)>>)
\* enum E { a = 1 }
enumE == mkEnum(Obj(<<Entry("1", Str("a")), Entry("a", Num(1))>>, FALSE))
\* const E = { 1: "x", b: 2 }
enumNumericKey == mkEnum(Obj(<<Entry("1", Str("x")), Entry("b", Num(2))>>, FALSE))
interIntLit == mkIntersection(intRt, lit1)
interStrTrim == mkIntersection(shortRt, trimRt)

Unions ==
  { mkUnion(<<lit1, lit2>>), mkUnion(<<intRt, strRt>>), mkUnion(<<strRt, intRt>>),
    mkUnion(<<recA, recAstr>>), mkUnion(<<dictPure, recAB>>),
    mkUnion(<<mkNullable(intRt), trimRt>>), mkUnion(<<interIntLit, strRt>>),
    mkUnion(<<discU, dictShort, intRt>>), mkUnion(<<mkUnion(<<lit1, lit2>>), recA>>),
    mkUnion(<<mkArray(recA), mkJson(recA)>>), mkUnion(<<trimRt, strRt>>),
    mkUnion(<<strRt, trimRt>>) }

Runtypes ==
  { mkAny, mkBoolean, intRt, mkInteger(Num(1), Num(1)), strRt, trimRt, shortRt,
    trimMin2,
    mkString(Num(1), Undef, FALSE, Str("/^[a-z]$/")), mkStringAsInteger, lit1,
    mkArray(intRt), mkArray(recA), mkArray(mkArray(intRt)), mkArray(dictPure),
    mkArrayOpt(intRt, Num(1), Num(1)), mkTuple(<<intRt, strRt>>),
    mkTuple(<<recA, intRt>>), recA, recAstr, recAB, recProto, recAProto, recOpt,
    recNested, recArr, recB1, mkStringIndex(intRt), mkNumberIndex(intRt),
    mkOptional(intRt), mkNullable(intRt), mkOptional(mkArray(intRt)),
    mkNullable(recA), dictPure, dictTrim, dictTrimRec, dictShort, dictRec, discU,
    interIntLit, interStrTrim, mkJson(intRt), mkJson(recA), tag1, tagX, tagXb,
    tagBool, mkIgnore, mkNull, mkCustom("identity"), mkLiteral(Str("x")),
    mkLiteral(Bool(TRUE)), enumE, enumNumericKey, mkGuardedBy("isString"),
    mkDictionary(strRt, mkJson(intRt)) } \cup Unions

Strings == {"a", "x", "1", "01", " a", "__proto__", "{\"a\":1}", "{\"a\":\"x\"}", "{"}
Keys == {"a", "b", "__proto__", " __proto__"}
PropertyValues == {Num(1), Str("x")}
Properties == {Entry(k, w) : k \in Keys, w \in PropertyValues}

Scalars ==
  {Undef, Null, Bool(TRUE)} \cup {Num(n) : n \in 0..MaxNum} \cup {Str(s) : s \in Strings}

\* objects of at most MaxKeys properties with distinct keys
PropertyLists ==
  UNION { { e \in [1..n -> Properties] :
              \A i, j \in 1..n : e[i].k = e[j].k => i = j } : n \in 0..MaxKeys }
Objects ==
  {Obj(e, FALSE) : e \in PropertyLists}
    \cup {Obj(e, TRUE) : e \in {x \in PropertyLists : Len(x) <= 1}}

objA1 == Obj(<<Entry("a", Num(1))>>, FALSE)
objAx == Obj(<<Entry("a", Str("x"))>>, FALSE)

\* arrays of at most MaxLen items
Items == {Num(1), Str("x"), objA1, objAx}
Arrays == {Arr(s) : s \in UNION {[1..n -> Items] : n \in 0..MaxLen}}

Nested ==
  { Obj(<<Entry("a", objA1)>>, FALSE), Obj(<<Entry("a", objAx)>>, FALSE),
    Obj(<<Entry("b", objAx), Entry("a", objA1)>>, FALSE),
    Obj(<<Entry("a", Arr(<<Num(1), Str("x")>>))>>, FALSE),
    Obj(<<Entry("a", Undef)>>, FALSE), Obj(<<Entry("a", Null)>>, FALSE),
    Obj(<<Entry("a", Str("1"))>>, FALSE),
    Obj(<<Entry(" __proto__", objA1)>>, FALSE),
    Obj(<<Entry("a", objA1), Entry(" a", objA1)>>, FALSE),
    Obj(<<Entry("1", Num(1))>>, FALSE), Obj(<<Entry("1", Str("x"))>>, FALSE),
    Obj(<<Entry("1", Num(1)), Entry("a", Num(1))>>, FALSE),
    Obj(<<Entry("1", Str("x")), Entry("b", Num(1))>>, FALSE),
    Obj(<<Entry("1", Num(1)), Entry("b", Str("x"))>>, FALSE),
    Obj(<<Entry(" a", Num(1)), Entry("a", Num(2))>>, FALSE),
    Arr(<<Arr(<<Num(1)>>), Arr(<<Num(1), Str("x")>>)>>),
    Arr(<<objA1, Obj(<<Entry("b", Num(1))>>, FALSE)>>),
    Arr(<<Undef, Num(1)>>), Arr(<<Null>>) }

Inputs == Scalars \cup Objects \cup Arrays \cup Nested

(***************************************************************************)
(* The state: one call of a runtype on an input, by application code       *)
(* (failOrThrow undefined) or by an enclosing runtype (failSymbol).        *)
(***************************************************************************)
VARIABLES runtype, input, mode, outcome, pc, call, built, again, _currentKey,
          schema

vars == <<runtype, input, mode, outcome, pc, call, built, again, _currentKey, schema>>

\* constructor calls
Call(fn, key, a, b, keys) == [fn |-> fn, key |-> key, a |-> a, b |-> b, keys |-> keys]
NoCall == Call("none", "", Undef, Undef, <<>>)

\* what the call evaluates to
Construct(c) ==
  CASE c.fn = "discriminatedUnion" -> discriminatedUnionOf(c.key, c.a)
    [] c.fn = "intersection" -> intersection(c.a, c.b)
    [] c.fn = "pick" -> pick(c.a, c.keys)
    [] c.fn = "omit" -> omit(c.a, c.keys)
    [] c.fn = "partial" -> partial(c.a)

\* the runtypes intersected with the runtype of the state
Operands == {recB, recAB, recNestedB, strRt, trimRt}

\* the calls application code makes with runtype rt among the arguments; the
\* keys handed to pick are keys of the record (K extends keyof T), and field
\* maps have no "__proto__" key
CallsOn(rt) ==
  IF rt.k = "record" /\ HasOwn(rt.typemap, "__proto__") THEN {}
  ELSE {Call("discriminatedUnion", "a", <<rt, tagX>>, Undef, <<>>),
        Call("discriminatedUnion", "a", <<tag1, tagXb, rt>>, Undef, <<>>),
        Call("partial", "", rt, Undef, <<>>),
        Call("omit", "", rt, Undef, <<"a">>),
        Call("omit", "", rt, Undef, <<"b", "a">>)}
    \cup {Call("intersection", "", rt, o, <<>>) : o \in Operands}
    \cup {Call("intersection", "", o, rt, <<>>) : o \in Operands}
    \cup {Call("pick", "", rt, Undef, keys) :
            keys \in {ks \in {<<"a">>, <<"b">>, <<"b", "a">>} :
                        rt.k = "record" =>
                          \A i \in 1..Len(ks) : HasOwn(rt.typemap, ks[i])}}

Init ==
  /\ runtype \in Runtypes
  /\ input \in Inputs
  /\ mode = "none"
  /\ outcome = Return(Undef, FALSE, FALSE)
  /\ pc = "ready"
  /\ call = NoCall
  /\ built = Constructed(Undef, Undef)
  /\ again = Return(Undef, FALSE, FALSE)
  /\ _currentKey = Undef
  /\ schema = Returned("")

\* runtype(input): the call of application code
ExternalCall ==
  /\ pc = "ready"
  /\ outcome' = Run(runtype, input, undefined, 0)
  /\ mode' = undefined
  /\ pc' = "done"
  /\ UNCHANGED <<runtype, input, call, built, again, _currentKey, schema>>

\* runtype(input, failSymbol): the call an enclosing runtype makes
InternalCall ==
  /\ pc = "ready"
  /\ outcome' = Run(runtype, input, failSymbol, 0)
  /\ mode' = failSymbol
  /\ pc' = "done"
  /\ UNCHANGED <<runtype, input, call, built, again, _currentKey, schema>>

\* a constructor is called with the runtype among its arguments
ConstructorCall ==
  /\ pc = "ready"
  /\ \E c \in CallsOn(runtype) :
       /\ call' = c
       /\ built' = Construct(c)
  /\ pc' = "constructed"
  /\ UNCHANGED <<runtype, input, mode, outcome, again, _currentKey, schema>>

\* the runtype the constructor returned is called on the input
BuiltCall ==
  /\ pc = "constructed"
  /\ built.c = "runtype"
  /\ \E failOrThrow \in {undefined, failSymbol} :
       /\ outcome' = Run(built.rt, input, failOrThrow, 0)
       /\ mode' = failOrThrow
  /\ pc' = "called"
  /\ UNCHANGED <<runtype, input, call, built, again, _currentKey, schema>>

\* the value the runtype returned is handed to the same runtype again
Revalidate ==
  /\ pc = "done"
  /\ outcome.r = "ok"
  /\ again' = Run(runtype, outcome.val, mode, 0)
  /\ pc' = "revalidated"
  /\ UNCHANGED <<runtype, input, mode, outcome, call, built, _currentKey, schema>>

\* toSchema(runtype)
ToSchemaCall ==
  /\ pc = "ready"
  /\ schema' = toSchema(runtype)
  /\ pc' = "schema"
  /\ UNCHANGED <<runtype, input, mode, outcome, call, built, again, _currentKey>>

Next ==
  \/ ExternalCall \/ InternalCall \/ ConstructorCall \/ BuiltCall \/ Revalidate
  \/ ToSchemaCall

Spec == Init /\ [][Next]_vars

(***************************************************************************)
(* Properties.                                                             *)
(***************************************************************************)
Done == pc = "done"
External == Done /\ mode = undefined
Internal == Done /\ mode = failSymbol
Rejected(res) == res.r = "fail" \/ (res.r = "throw" /\ res.err = "RuntypeError")
OwnKeySet(o) == {o.e[i].k : i \in 1..Len(o.e)}

\* C1: called with the failSymbol, every runtype of the universe returns a
\* value or a Fail for every input: it never throws.
C1_InternalNeverThrows == Internal => outcome.r \in {"ok", "fail"}

C1_Witness ==
  /\ Internal
  /\ runtype = mkUnion(<<discU, dictShort, intRt>>)
  /\ input = Obj(<<Entry("a", Str("x")), Entry("b", Num(1))>>, FALSE)
  /\ isFail(outcome)

\* C2: every combinator calls its children with the failSymbol, so in an
\* external call the RuntypeError is thrown by the runtype the caller invoked
\* (depth 0), never by a child runtype.
Combinators ==
  {"array", "tuple", "record", "dictionary", "optional", "nullable", "union",
   "discriminatedUnion", "intersection"}

C2_ThrownByOutermost ==
  (External /\ runtype.k \in Combinators /\ Thrown(outcome)) => outcome.depth = 0

\* C3: the value of the RuntypeError of a failing external call is the
\* input of that call.
C3_ErrorValueIsInput == (External /\ Thrown(outcome)) => outcome.value = input

\* The runtype and the value a root-to-leaf path leads to, through arrays,
\* tuples and records.
RECURSIVE Locate(_, _, _)
Locate(rt, v, path) ==
  IF path = <<>> THEN [found |-> TRUE, rt |-> rt, v |-> v]
  ELSE LET key == Head(path)
       IN CASE rt.k = "array" /\ key.t = "number" /\ v.t = "array"
                 /\ key.n < Len(v.items) ->
                 Locate(rt.a, v.items[key.n + 1], Tail(path))
            [] rt.k = "tuple" /\ key.t = "number" /\ v.t = "array"
                 /\ key.n < Len(v.items) /\ key.n < Len(rt.types) ->
                 Locate(rt.types[key.n + 1], v.items[key.n + 1], Tail(path))
            [] rt.k = "record" /\ key.t = "string" /\ v.t = "object"
                 /\ (\E i \in 1..Len(rt.typemap) : rt.typemap[i].k = key.s) ->
                 Locate((CHOOSE f \in {rt.typemap[i] : i \in 1..Len(rt.typemap)} :
                           f.k = key.s).t,
                        Get(v, key.s), Tail(path))
            [] OTHER -> [found |-> FALSE, rt |-> rt, v |-> v]

\* runtypes made of arrays, tuples and records over basic types
RECURSIVE Structural(_)
Structural(rt) ==
  CASE rt.k = "array" -> Structural(rt.a)
    [] rt.k = "tuple" -> \A i \in 1..Len(rt.types) : Structural(rt.types[i])
    [] rt.k = "record" -> \A i \in 1..Len(rt.typemap) : Structural(rt.typemap[i].t)
    [] OTHER -> rt.k \in {"any", "boolean", "integer", "string", "literal"}

\* C4: when a runtype made of arrays, tuples and records fails, the path of
\* the returned Fail lists the index or field name of each enclosing
\* combinator leaf first, and the path of the thrown RuntypeError lists them
\* root first: it leads from the input to the item that fails, by its own
\* runtype, with that reason and an empty path.  array(record({a: integer()}))
\* on [{a: 1}, {a: "x"}] throws with path [1, "a"].
C4_PathLeadsToFailure ==
  (Done /\ Structural(runtype) /\ Rejected(outcome)) =>
    LET path == IF mode = undefined THEN outcome.path ELSE Reverse(outcome.path)
        at == Locate(runtype, input, path)
        leaf == Run(at.rt, at.v, failSymbol, 0)
    IN /\ at.found
       /\ isFail(leaf)
       /\ leaf.path = <<>>
       /\ leaf.reason = outcome.reason
       /\ (runtype = mkArray(recA) /\ input = Arr(<<objA1, objAx>>) /\ mode = undefined
             => outcome.path = <<Num(1), Str("a")>>)

C4_Witness ==
  /\ External
  /\ runtype = mkArray(recA)
  /\ input = Arr(<<objA1, objAx>>)
  /\ Thrown(outcome)
  /\ outcome.path = <<Num(1), Str("a")>>

\* the declared field names of a record runtype
Declared(rt) == {rt.typemap[i].k : i \in 1..Len(rt.typemap)}

\* every declared field of the object is accepted by its runtype
FieldsAccepted(rt, o) ==
  \A i \in 1..Len(rt.typemap) :
    Run(rt.typemap[i].t, Get(o, rt.typemap[i].k), failSymbol, 0).r = "ok"

\* the message names the key
Names(reason, k) ==
  \/ reason.arg = Str(k)
  \/ /\ reason.arg.t = "array"
     /\ \E i \in 1..Len(reason.arg.items) : reason.arg.items[i] = Str(k)

RecordCall == Done /\ runtype.k = "record" /\ input.t = "object"

\* an object with a key the record does not declare, and valid declared
\* fields, is rejected with a reason that names every undeclared key
ExcessKeysRejected ==
  (/\ RecordCall
   /\ FieldsAccepted(runtype, input)
   /\ OwnKeySet(input) \ Declared(runtype) # {}) =>
    /\ Rejected(outcome)
    /\ \A k \in OwnKeySet(input) \ Declared(runtype) : Names(outcome.reason, k)

\* C5 as stated: an object whose own keys are exactly the declared fields,
\* each accepted by its field's runtype, is accepted by the record, and an
\* object that also has undeclared keys is rejected with a reason naming them.
C5_ExactKeysAccepted ==
  /\ (/\ RecordCall
      /\ OwnKeySet(input) = Declared(runtype)
      /\ FieldsAccepted(runtype, input)) => outcome.r = "ok"
  /\ ExcessKeysRejected

\* C5, amended: an object whose own keys are exactly the declared fields,
\* none of them named "__proto__", each accepted by its field's runtype, is
\* accepted by the record, and an object that also has undeclared keys is
\* rejected with a reason naming them.
C5_ExactKeysAcceptedNoProto ==
  /\ (/\ RecordCall
      /\ OwnKeySet(input) = Declared(runtype)
      /\ "__proto__" \notin Declared(runtype)
      /\ FieldsAccepted(runtype, input)) => outcome.r = "ok"
  /\ ExcessKeysRejected

C5_Witness ==
  /\ External
  /\ runtype = recAstr
  /\ input = Obj(<<Entry("a", Str("x")), Entry("b", Num(1))>>, FALSE)
  /\ Thrown(outcome)
  /\ Names(outcome.reason, "b")

\* C6: a record rejects every object that has an own "__proto__" key, declared
\* or not, and reports that key, not the failure of a declared field.
C6_ProtoRejectedFirst ==
  (RecordCall /\ HasOwn(input.e, "__proto__")) =>
    /\ Rejected(outcome)
    /\ outcome.path = <<>>
    /\ Names(outcome.reason, "__proto__")

DictionaryCall == Done /\ runtype.k = "dictionary" /\ input.t = "object"

DictionaryIsPure(rt) == isPureRuntype(rt.keyRuntype) /\ isPureRuntype(rt.valueRuntype)

\* C7: a dictionary, pure or not, rejects every object that has an own
\* "__proto__" key or a symbol key, a symbol key with the same reason in both
\* cases, and no object it accepts or returns has such a key.
C7_DictionaryRejectsProto ==
  DictionaryCall =>
    /\ (HasOwn(input.e, "__proto__") \/ input.sym) => Rejected(outcome)
    /\ input.sym => outcome.reason = Msg("invalid key in dictionary:", Str("Symbol()"))
    /\ outcome.r = "ok" =>
         /\ ~HasOwn(outcome.val.e, "__proto__")
         /\ ~outcome.val.sym

C7_Witness ==
  /\ Internal
  /\ runtype = dictTrim
  /\ input = Obj(<<Entry("a", Num(1)), Entry("__proto__", Num(1))>>, FALSE)
  /\ isFail(outcome)
  /\ outcome.reason = Msg("invalid key in dictionary:", Str("__proto__"))

\* the property name the dictionary's key runtype makes of an own key
ValidatedKey(rt, k) == propertyKey(Run(rt.keyRuntype, Str(k), failSymbol, 0).val)

UnionCall == Done /\ runtype.k = "union"

\* the alternatives of a union that accept the value
Accepting(rt, v) ==
  {i \in 1..Len(rt.runtypes) : Run(rt.runtypes[i], v, failSymbol, 0).r = "ok"}

\* C9: called by application code or by another runtype, a union accepts a
\* value exactly when one of its alternatives accepts it, and exactly when the
\* union of the same alternatives in the opposite order accepts it.
C9_UnionAcceptsIffSomeAlternative ==
  UnionCall =>
    /\ outcome.r = "ok" <=> Accepting(runtype, input) # {}
    /\ outcome.r = "ok" <=>
         Run(mkUnion(Reverse(runtype.runtypes)), input, mode, 0).r = "ok"
    /\ outcome.r # "ok" => Rejected(outcome)

C9_Witness ==
  /\ External
  /\ runtype = mkUnion(<<discU, dictShort, intRt>>)
  /\ input = Num(1)
  /\ Accepting(runtype, input) = {3}
  /\ outcome.r = "ok"

\* C10: a union returns the value of the first alternative, in declaration
\* order, that accepts; when none accepts, it reports the reason and the path
\* of the last alternative's failure.  union(literal(1), literal(2)) on 3
\* reports the failure of literal(2).
C10_FirstSuccessLastFailure ==
  UnionCall =>
    LET n == Len(runtype.runtypes)
        accepting == Accepting(runtype, input)
        first == CHOOSE i \in accepting : \A j \in accepting : i <= j
        last == Run(runtype.runtypes[n], input, failSymbol, 0)
    IN IF accepting # {}
       THEN /\ outcome.r = "ok"
            /\ outcome.val = Run(runtype.runtypes[first], input, failSymbol, 0).val
            /\ outcome.same = Run(runtype.runtypes[first], input, failSymbol, 0).same
       ELSE /\ Rejected(outcome)
            /\ outcome.reason = last.reason
            /\ outcome.path = IF mode = undefined THEN Reverse(last.path) ELSE last.path

C10_Witness ==
  /\ External
  /\ runtype = mkUnion(<<lit1, lit2>>)
  /\ input = Num(3)
  /\ Thrown(outcome)
  /\ outcome.reason = Msg("expected a literal:", Num(2))

Constructing(fn) == pc = "constructed" /\ call.fn = fn
Called(fn) == pc = "called" /\ call.fn = fn

\* the runtype has a string or number literal at the field
HasTag(t, key) ==
  /\ t.k = "record"
  /\ HasOwn(t.typemap, key)
  /\ fieldsGet(t.typemap, key).k = "literal"
  /\ fieldsGet(t.typemap, key).lit.t \in {"string", "number"}

\* C11: discriminatedUnion(key, ...) throws a RuntypeUsageError, and no other
\* error, when one of the runtypes has no string or number literal at key:
\* it is no record, declares no such field, declares another runtype there,
\* or a boolean literal.
C11_BrokenDefinitionIsUsageError ==
  (/\ Constructing("discriminatedUnion")
   /\ \E i \in 1..Len(call.a) : ~HasTag(call.a[i], call.key)) =>
    built.c = "throw" /\ built.err = "RuntypeUsageError"

\* the discriminated union that ran and the alternatives set for a tag value
Discriminated ==
  IF Called("discriminatedUnion") THEN built.rt ELSE runtype
DiscriminatedCall ==
  \/ Called("discriminatedUnion")
  \/ Done /\ runtype.k = "discriminatedUnion"
Registered(du, tagValue) ==
  {i \in 1..Len(du.runtypes) :
     /\ HasTag(du.runtypes[i], du.key)
     /\ fieldsGet(du.runtypes[i].typemap, du.key).lit = tagValue}

SameOutcome(x, y) == [x EXCEPT !.depth = 0] = [y EXCEPT !.depth = 0]

\* C12: a discriminated union rejects what is no object; on an object it
\* reads the tag field and ends as the one runtype set for exactly that tag
\* value (the last one, if several) ends on the whole input; when none is set
\* for the value it fails with a reason that holds the value.
C12_DispatchByTag ==
  DiscriminatedCall =>
    LET du == Discriminated
        tagValue == Get(input, du.key)
        registered == Registered(du, tagValue)
        selected == CHOOSE i \in registered : \A j \in registered : j <= i
    IN IF input.t # "object" THEN Rejected(outcome)
       ELSE IF registered = {}
       THEN /\ Rejected(outcome)
            /\ outcome.path = <<>>
            /\ outcome.reason =
                 Msg("no Runtype found for discriminated union tag", tagValue)
       ELSE SameOutcome(outcome, Run(du.runtypes[selected], input, mode, 0))

C12_Witness ==
  /\ Called("discriminatedUnion")
  /\ built.rt = mkDiscriminatedUnion("a", <<tag1, tagXb, tagX>>)
  /\ input = objAx
  /\ mode = undefined
  /\ Registered(built.rt, Str("x")) = {2, 3}
  /\ outcome.r = "ok"

RecordIntersection ==
  /\ pc \in {"constructed", "called"}
  /\ call.fn = "intersection"
  /\ call.a.k = "record"
  /\ call.b.k = "record"

\* the runtype the intersection of two records is to have at field k
IntersectedField(a, b, k) ==
  IF HasOwn(a, k) /\ HasOwn(b, k)
  THEN intersection(fieldsGet(a, k), fieldsGet(b, k)).rt
  ELSE IF HasOwn(a, k) THEN fieldsGet(a, k) ELSE fieldsGet(b, k)

\* C13: the intersection of two records is a record whose fields are those of
\* both: a field of one operand keeps its runtype, a field of both has the
\* intersection of the two runtypes, and an object is accepted when its keys
\* are among these fields and every field accepts its value.  When the
\* operands share no field it ends as the record over the fields of both.
C13_RecordIntersection ==
  RecordIntersection =>
    LET a == call.a.typemap
        b == call.b.typemap
        shared == Declared(call.a) \cap Declared(call.b)
        all == Declared(call.a) \cup Declared(call.b)
    IN /\ built.c = "throw" <=>
            \E k \in shared : intersection(fieldsGet(a, k), fieldsGet(b, k)).c = "throw"
       /\ built.c = "runtype" =>
            /\ built.rt.k = "record"
            /\ Declared(built.rt) = all
            /\ \A k \in all :
                 fieldsGet(built.rt.typemap, k) = IntersectedField(a, b, k)
       /\ pc = "called" =>
            /\ outcome.r = "ok" <=>
                 /\ input.t = "object"
                 /\ OwnKeySet(input) \subseteq all
                 /\ \A k \in all :
                      Run(IntersectedField(a, b, k), Get(input, k), failSymbol, 0).r = "ok"
            /\ shared = {} =>
                 SameOutcome(outcome, Run(mkRecord(a \o b), input, mode, 0))

C13_Witness ==
  /\ Called("intersection")
  /\ call.a = recAstr
  /\ call.b = recAB
  /\ built.rt.typemap[1].t = mkIntersection(strRt, intRt)
  /\ input = Obj(<<Entry("a", Str("x")), Entry("b", Str("x"))>>, FALSE)
  /\ Rejected(outcome)

UnionIntersection ==
  /\ pc \in {"constructed", "called"}
  /\ call.fn = "intersection"
  /\ \/ call.a.k = "union" /\ call.b.k = "record"
     \/ call.a.k = "record" /\ call.b.k = "union"

\* C14: the intersection of a union and a record, in either order of the
\* arguments, is the union, in the order of the alternatives, of the
\* intersections of each alternative with the record: it is built when each
\* of them is, accepts when one of them accepts, returns what the first of
\* them that accepts returns, and fails as the last of them fails.
C14_UnionIntersectionDistributes ==
  UnionIntersection =>
    LET u == IF call.a.k = "union" THEN call.a ELSE call.b
        r == IF call.a.k = "union" THEN call.b ELSE call.a
        n == Len(u.runtypes)
        parts == [i \in 1..n |-> intersection(u.runtypes[i], r)]
        accepting == {i \in 1..n : Run(parts[i].rt, input, failSymbol, 0).r = "ok"}
        first == CHOOSE i \in accepting : \A j \in accepting : i <= j
    IN /\ built.c = "runtype" <=> \A i \in 1..n : parts[i].c = "runtype"
       /\ built.c = "throw" => \E i \in 1..n : parts[i].err = built.err
       /\ pc = "called" =>
            IF accepting # {}
            THEN /\ outcome.r = "ok"
                 /\ outcome.val = Run(parts[first].rt, input, failSymbol, 0).val
            ELSE /\ Rejected(outcome)
                 /\ outcome.reason = Run(parts[n].rt, input, failSymbol, 0).reason

C14_Witness ==
  /\ Called("intersection")
  /\ call.a = recB
  /\ call.b = mkUnion(<<recA, recAstr>>)
  /\ input = Obj(<<Entry("b", Str("x")), Entry("a", Str("x"))>>, FALSE)
  /\ outcome.r = "ok"
  /\ outcome.val = Obj(<<Entry("a", Str("x")), Entry("b", Str("x"))>>, FALSE)

\* C15: intersection throws a RuntypeUsageError when one argument is a record
\* or a union and the other is a basic type, in either order.
BasicType(rt) == rt.k \in {"any", "boolean", "integer", "string", "literal"}

C15_BaseTypeIntersectionThrows ==
  (/\ pc \in {"constructed", "called"}
   /\ call.fn = "intersection"
   /\ \/ call.a.k \in {"record", "union"} /\ BasicType(call.b)
      \/ call.b.k \in {"record", "union"} /\ BasicType(call.a)) =>
    built.c = "throw" /\ built.err = "RuntypeUsageError"

\* the intersection of two runtypes, neither a record nor a union, that ran
Intersected ==
  IF Called("intersection") THEN built.rt ELSE runtype
IntersectionCall ==
  \/ Called("intersection") /\ built.rt.k = "intersection"
  \/ Done /\ runtype.k = "intersection"

\* C16: the intersection of two runtypes that are neither records nor unions
\* gives both the value it was given; it accepts when both accept, and then
\* returns what the second returns; it fails when one of them fails.
C16_IntersectionReturnsSecond ==
  IntersectionCall =>
    LET valFromA == Run(Intersected.a, input, failSymbol, 0)
        valFromB == Run(Intersected.b, input, failSymbol, 0)
    IN IF valFromA.r = "ok" /\ valFromB.r = "ok"
       THEN /\ outcome.r = "ok"
            /\ outcome.val = valFromB.val
            /\ outcome.same = valFromB.same
       ELSE Rejected(outcome)

C16_Witness ==
  /\ Called("intersection")
  /\ call.a = trimRt
  /\ call.b = strRt
  /\ input = Str(" a")
  /\ Run(trimRt, input, failSymbol, 0).val = Str("a")
  /\ outcome.r = "ok"
  /\ outcome.val = Str(" a")

PickOmitPartial == call.fn \in {"pick", "omit", "partial"}

\* C17: pick, omit and partial, given a runtype that is no record, throw a
\* RuntypeUsageError: they return no runtype and no Fail.
C17_NonRecordIsUsageError ==
  (pc = "constructed" /\ PickOmitPartial /\ call.a.k # "record") =>
    /\ built.c = "throw"
    /\ built.err = "RuntypeUsageError"
    /\ built.rt = Undef

C17_Witness ==
  /\ Constructing("partial")
  /\ call.a = mkUnion(<<recA, recAstr>>)
  /\ built.c = "throw"
  /\ built.err = "RuntypeUsageError"

\* the field the runtype built by pick, omit or partial is to have for a
\* field of the original
DerivedField(t) == IF call.fn = "partial" THEN mkOptional(t) ELSE t

\* the fields the runtype built by pick, omit or partial is to have
DerivedKeys ==
  LET keys == {call.keys[i] : i \in 1..Len(call.keys)}
  IN CASE call.fn = "pick" -> keys
       [] call.fn = "omit" -> Declared(call.a) \ keys
       [] call.fn = "partial" -> Declared(call.a)

\* C18: pick, omit and partial of a record return a record over the listed
\* fields, over the fields not listed, and over all fields each wrapped in
\* optional; the record they were given is as before, and accepts and
\* rejects as before.
C18_DerivedRecord ==
  (pc \in {"constructed", "called"} /\ PickOmitPartial /\ call.a.k = "record") =>
    /\ built.c = "runtype"
    /\ built.rt.k = "record"
    /\ Declared(built.rt) = DerivedKeys
    /\ \A k \in DerivedKeys :
         fieldsGet(built.rt.typemap, k) = DerivedField(fieldsGet(call.a.typemap, k))
    /\ built.original = call.a
    /\ pc = "called" =>
         /\ outcome.r = "ok" <=>
              /\ input.t = "object"
              /\ OwnKeySet(input) \subseteq DerivedKeys
              /\ \A k \in DerivedKeys :
                   Run(DerivedField(fieldsGet(call.a.typemap, k)), Get(input, k),
                       failSymbol, 0).r = "ok"
         /\ Run(built.original, input, mode, 0) = Run(runtype, input, mode, 0)

C18_Witness ==
  /\ Called("omit")
  /\ call.a = recAB
  /\ call.keys = <<"a">>
  /\ input = Obj(<<Entry("b", Str("x"))>>, FALSE)
  /\ outcome.r = "ok"
  /\ Rejected(Run(recAB, input, mode, 0))

\* a runtype was called, and which
Ended == pc \in {"done", "called"}
Ran == IF pc = "called" THEN built.rt ELSE runtype

\* the same keys, the same elements, the same scalar values
RECURSIVE DeepEqual(_, _)
DeepEqual(x, y) ==
  IF x.t = "object" /\ y.t = "object"
  THEN /\ OwnKeySet(x) = OwnKeySet(y)
       /\ x.sym = y.sym
       /\ \A k \in OwnKeySet(x) : DeepEqual(Get(x, k), Get(y, k))
  ELSE IF x.t = "array" /\ y.t = "array"
  THEN /\ Len(x.items) = Len(y.items)
       /\ \A i \in 1..Len(x.items) : DeepEqual(x.items[i], y.items[i])
  ELSE x = y

\* the string keys under which the object holds something other than undefined
DefinedKeySet(o) == {k \in OwnKeySet(o) : Get(o, k) # Undef}

\* the same but for symbol keys and for properties that hold undefined
RECURSIVE DeepEqualDefined(_, _)
DeepEqualDefined(x, y) ==
  IF x.t = "object" /\ y.t = "object"
  THEN /\ DefinedKeySet(x) = DefinedKeySet(y)
       /\ \A k \in DefinedKeySet(x) : DeepEqualDefined(Get(x, k), Get(y, k))
  ELSE IF x.t = "array" /\ y.t = "array"
  THEN /\ Len(x.items) = Len(y.items)
       /\ \A i \in 1..Len(x.items) : DeepEqualDefined(x.items[i], y.items[i])
  ELSE x = y

\* the runtypes a runtype is made of
Children(rt) ==
  CASE rt.k \in {"array"} -> {rt.a}
    [] rt.k \in {"tuple"} -> {rt.types[i] : i \in 1..Len(rt.types)}
    [] rt.k = "record" -> {rt.typemap[i].t : i \in 1..Len(rt.typemap)}
    [] rt.k \in {"stringIndex", "numberIndex", "optional", "nullable"} -> {rt.t}
    [] rt.k \in {"union", "discriminatedUnion"} ->
         {rt.runtypes[i] : i \in 1..Len(rt.runtypes)}
    [] rt.k = "intersection" -> {rt.a, rt.b}
    [] rt.k = "dictionary" -> {rt.keyRuntype, rt.valueRuntype}
    [] rt.k = "json" -> {rt.rt}
    [] OTHER -> {}

\* the runtype has a part that is to change the value: trim, stringAsInteger,
\* json, ignore
RECURSIVE Transforms(_)
Transforms(rt) ==
  \/ rt.k \in {"stringAsInteger", "json", "ignore"}
  \/ rt.k = "string" /\ rt.options /\ rt.trim
  \/ \E c \in Children(rt) : Transforms(c)

\* an object of the value has an own "__proto__" key
RECURSIVE HasProtoKey(_)
HasProtoKey(v) ==
  CASE v.t = "object" ->
         \/ HasOwn(v.e, "__proto__")
         \/ \E i \in 1..Len(v.e) : HasProtoKey(v.e[i].v)
    [] v.t = "array" -> \E i \in 1..Len(v.items) : HasProtoKey(v.items[i])
    [] OTHER -> FALSE

C20_PureReturnsInput ==
  (Ended /\ outcome.r = "ok" /\ isPureArgument(Ran)) =>
    outcome.same /\ outcome.val = input

\* C21: a value a runtype returned is accepted by the same runtype, which
\* returns a value deep-equal to it.
C21_RevalidationAccepts ==
  pc = "revalidated" => again.r = "ok" /\ DeepEqual(again.val, outcome.val)

(***************************************************************************)
(* The runtypes that throw on failure and keep the key being processed in  *)
(* the module variable _currentKey.  A call returns its outcome and the    *)
(* value it leaves in the variable.  The path of a thrown outcome holds    *)
(* the key the message names, " (key: k)".                                 *)
(***************************************************************************)
Keyed(out, key) == [out |-> out, key |-> key]

\* currentKey(): the suffix of the message
currentKey(key) == IF key = Undef \/ key = Str("") THEN <<>> ELSE <<key>>

createError(msg, value, key) ==
  Throw("RuntypeError", Msg(msg, value), value, currentKey(key), 0)

integerKeyed(v, key) ==
  IF v.t = "number" THEN Keyed(Return(v, TRUE, FALSE), key)
  ELSE Keyed(createError("expected an integer", v, key), key)

stringKeyed(v, key) ==
  IF typeof(v) = "string" THEN Keyed(Return(v, TRUE, FALSE), key)
  ELSE Keyed(createError("expected a string", v, key), key)

RECURSIVE RunKeyed(_, _, _)

\* for (const k in typemap) { _currentKey = k; res[k] = typemap[k](o[k]) }
RECURSIVE recordKeyedFields(_, _, _, _, _)
recordKeyedFields(rt, v, i, res, key) ==
  IF i > Len(rt.typemap) THEN Keyed(Return(Obj(res.e, FALSE), FALSE, res.protoSet), key)
  ELSE LET k == rt.typemap[i].k
           value == RunKeyed(rt.typemap[i].t, Get(v, k), Str(k))
       IN IF Thrown(value.out) THEN value
          ELSE recordKeyedFields(rt, v, i + 1, ObjSet(res, k, value.out.val), value.key)

recordKeyed(rt, v, key) ==
  IF ~(typeof(v) = "object" /\ ~isArray(v) /\ v # Null)
  THEN Keyed(createError("expected an object", v, key), key)
  ELSE LET res == recordKeyedFields(rt, v, 1, NewObject, key)
       IN IF Thrown(res.out) THEN res
          ELSE LET unknownKeys ==
                     SelectSeq(OwnKeys(v), LAMBDA k : ~HasOwn(res.out.val.e, k))
               IN IF Len(unknownKeys) > 0
                  THEN Keyed(createError("invalid keys in record",
                               Arr([j \in 1..Len(unknownKeys) |-> Str(unknownKeys[j])]),
                               key), key)
                  ELSE Keyed(res.out, key)

optionalKeyed(rt, v, key) ==
  IF v = Undef THEN Keyed(Return(Undef, TRUE, FALSE), key)
  ELSE RunKeyed(rt.t, v, key)

RunKeyed(rt, v, key) ==
  CASE rt.k = "integer" -> integerKeyed(v, key)
    [] rt.k = "string" -> stringKeyed(v, key)
    [] rt.k = "record" -> recordKeyed(rt, v, key)
    [] rt.k = "optional" -> optionalKeyed(rt, v, key)

KeyedRuntypes == {intRt, strRt, recA, recAstr, recAB, recOpt, recNested, mkOptional(recB)}

\* the values handed to them: the scalars and the objects of at most one key
KeyedInputs == Scalars \cup {v \in Objects \cup Nested : v.t = "object" /\ Len(v.e) <= 1}

InitKeyed ==
  /\ runtype = intRt
  /\ input = Undef
  /\ mode = "none"
  /\ outcome = Return(Undef, FALSE, FALSE)
  /\ pc = "ready"
  /\ call = NoCall
  /\ built = Constructed(Undef, Undef)
  /\ again = Return(Undef, FALSE, FALSE)
  /\ _currentKey = Undef
  /\ schema = Returned("")

\* application code calls a runtype on a value, after whatever calls came before
KeyedCall ==
  /\ \E rt \in KeyedRuntypes, v \in KeyedInputs :
       /\ runtype' = rt
       /\ input' = v
       /\ outcome' = RunKeyed(rt, v, _currentKey).out
       /\ _currentKey' = RunKeyed(rt, v, _currentKey).key
  /\ pc' = "done"
  /\ UNCHANGED <<mode, call, built, again, schema>>

NextKeyed == KeyedCall

SpecKeyed == InitKeyed /\ [][NextKeyed]_vars

\* C22: the outcome of a call (the value, or the error with its message and
\* the key it names) is the outcome the same call has when no call came
\* before it.
C22_OutcomeIndependentOfEarlierCalls ==
  pc = "done" => outcome = RunKeyed(runtype, input, Undef).out

\* C23: an enum runtype accepts a value exactly when the value is strictly
\* equal to one of the values of its enum object, and returns an accepted
\* value as it is.
C23_EnumAcceptsExactlyValues ==
  (Ended /\ Ran.k = "enum") =>
    /\ outcome.r = "ok" <=> isEnumValue(Ran.enumObject, input)
    /\ outcome.r = "ok" => outcome.same /\ outcome.val = input

\* C24: toSchema returns, without throwing, 'any' for any, custom, guardedBy
\* and ignore, 'boolean' for boolean, 'number' for integer, 'string' for json
\* and string (with or without options), the JSON text of the literal for
\* literal and the keys of the enum object as JSON strings joined by ' | '
\* for enum.
C24_ToSchemaOfBasicRuntypes ==
  pc = "schema" =>
    /\ runtype.k \in {"any", "custom", "guardedBy", "ignore"} => schema = Returned("any")
    /\ runtype.k = "boolean" => schema = Returned("boolean")
    /\ runtype.k = "integer" => schema = Returned("number")
    /\ runtype.k \in {"json", "string"} => schema = Returned("string")
    /\ runtype = lit1 => schema = Returned("1")
    /\ runtype = mkLiteral(Str("x")) => schema = Returned("\"x\"")
    /\ runtype = mkLiteral(Bool(TRUE)) => schema = Returned("true")
    /\ runtype = enumE => schema = Returned("\"1\" | \"a\"")
    /\ runtype = enumNumericKey => schema = Returned("\"1\" | \"b\"")
    /\ runtype.k \in {"literal", "enum"} => schema.c = "return"

C24_Witness ==
  /\ pc = "schema"
  /\ runtype = enumE
  /\ schema = Returned("\"1\" | \"a\"")

\* the object literals that make the typemap of record runtype rt
Declarations(rt) ==
  {decl \in [1..Len(rt.typemap) -> {rt.typemap[i] : i \in 1..Len(rt.typemap)}] :
     /\ \A i, j \in 1..Len(decl) : decl[i] = decl[j] => i = j
     /\ ownPropertyKeys(decl) = rt.typemap}

\* the key the failure was given last, by the runtype that was called
OutermostKey(res) ==
  IF Len(res.path) = 0 THEN Undef
  ELSE IF res.r = "throw" THEN res.path[1] ELSE res.path[Len(res.path)]

\* the record call of the state reports the failure of the first field of
\* typemap that rejects its property, under that field's name; it reports
\* unknown keys only if no field rejects
FirstFailingField(typemap) ==
  LET result(i) == Run(typemap[i].t, Get(input, typemap[i].k), failSymbol, 1)
      failing == {i \in 1..Len(typemap) : isFail(result(i))}
      first == CHOOSE i \in failing : \A j \in failing : i <= j
  IN IF failing # {}
     THEN /\ Rejected(outcome)
          /\ outcome.reason = result(first).reason
          /\ OutermostKey(outcome) = Str(typemap[first].k)
          /\ Len(outcome.path) = Len(result(first).path) + 1
     ELSE outcome.r # "ok" => outcome.reason.template = "invalid keys in record"

\* C25 as stated: a record runs its field runtypes in the order the fields
\* are declared in and reports the first failing field under its name;
\* unknown keys are reported only when every declared field is accepted.
C25_FieldsInDeclarationOrder ==
  RecordCall =>
    \A decl \in Declarations(runtype) : FirstFailingField(decl)

\* C25, amended: a record runs its field runtypes in the order for..in
\* enumerates the typemap (array-index names in ascending order, then the
\* other names in declaration order) and reports the first failing field
\* under its name; unknown keys are reported only when every declared field
\* is accepted.
C25_FieldsInEnumerationOrder ==
  RecordCall =>
    FirstFailingField(runtype.typemap)

C25_Witness ==
  /\ External
  /\ runtype = recA
  /\ input = Obj(<<Entry("a", Str("x")), Entry("b", Num(1))>>, FALSE)
  /\ outcome.reason.template = "expected a safe integer"
  /\ outcome.path = <<Str("a")>>

\* C26: an external call returns a value exactly when the internal call on
\* the same input returns one, and the same value; when it throws, the
\* error has the reason of the Fail the internal call returns and its path
\* reversed.
C26_ModesAgree ==
  External =>
    LET internal == Run(runtype, input, failSymbol, 0)
    IN /\ outcome.r = "ok" <=> internal.r = "ok"
       /\ outcome.r = "ok" => outcome.val = internal.val /\ outcome.same = internal.same
       /\ outcome.r = "throw" =>
            /\ outcome.err = "RuntypeError"
            /\ outcome.reason = internal.reason
            /\ outcome.path = Reverse(internal.path)

\* C27: the object a dictionary returns was never assigned the key
\* "__proto__".
C27_ResultNeverAssignedProto ==
  (Ended /\ Ran.k = "dictionary" /\ outcome.r = "ok") => ~outcome.protoSet

\* C28: when a dictionary rejects an object because the key runtype rejects
\* one of its keys or the value runtype one of its values, the failure's
\* path ends with a key of the object, as it does for a record field.
C28_DictionaryPathNamesEntry ==
  (/\ Done /\ runtype.k = "dictionary" /\ input.t = "object"
   /\ ~input.sym /\ ~HasOwn(input.e, "__proto__")
   /\ Rejected(outcome)) =>
    OutermostKey(outcome) \in {Str(k) : k \in OwnKeySet(input)}

\* the tag literals of the alternatives are pairwise distinct
DistinctTags(du) ==
  \A i, j \in 1..Len(du.runtypes) :
    tagValueOf(du.runtypes[i], du.key) = tagValueOf(du.runtypes[j], du.key) => i = j

\* C29: a discriminated union of records with pairwise distinct tag literals
\* accepts exactly the inputs the union of the same records accepts, and
\* returns the value the union returns; of several records with the same tag
\* literal, the one declared last answers for the tag.
C29_DiscriminatedUnionIsUnion ==
  DiscriminatedCall =>
    LET du == Discriminated
        u == Run(mkUnion(du.runtypes), input, mode, 0)
        set == IF input.t = "object" THEN Registered(du, Get(input, du.key)) ELSE {}
        last == CHOOSE i \in set : \A j \in set : j <= i
    IN /\ DistinctTags(du) =>
            /\ outcome.r = "ok" <=> u.r = "ok"
            /\ outcome.r = "ok" => outcome.val = u.val /\ outcome.same = u.same
            /\ Rejected(outcome) <=> Rejected(u)
       /\ Cardinality(set) > 1 =>
            SameOutcome(outcome, Run(du.runtypes[last], input, mode, 1))

C29_Witness ==
  /\ Called("discriminatedUnion")
  /\ call.a = <<tag1, tagX>>
  /\ input = Obj(<<Entry("a", Num(1)), Entry("b", Str("x"))>>, FALSE)
  /\ outcome.r = "ok"
  /\ outcome.val = input

\* C30: no call of a runtype function assigns to a property of the value it
\* is called on, whether it accepts the value or not; a dictionary assigns
\* only to the object it made.  Every nested value is validated by such a
\* call.
C30_InputNeverAssigned ==
  /\ Ended => ~outcome.written
  /\ pc = "revalidated" => ~again.written
  /\ (Ended /\ outcome.r = "ok" /\ Ran.k \in {"record", "array", "tuple", "stringIndex",
                                              "numberIndex"}) => ~outcome.same

C30_Witness ==
  /\ Done
  /\ runtype = mkDictionary(strRt, mkJson(intRt))
  /\ input = Obj(<<Entry("a", Str("1"))>>, FALSE)
  /\ outcome.r = "ok"
  /\ outcome.same
  /\ outcome.val = input

====
